---- MODULE Spec2Model ----
(***************************************************************************)
(* A model of the mac_prefs package: the converter between Go values and   *)
(* CoreFoundation objects (foundation.go, in its two variants) and the     *)
(* preference handlers Set, SetApp, Get and GetApp built on it.            *)
(*                                                                         *)
(* Go values and CoreFoundation objects are records.  Each kind of value   *)
(* has its own set of field names, so that two values of different kinds   *)
(* are always comparable.  Every CoreFoundation object carries an id, the  *)
(* path at which the call created it, and every create, retain and release *)
(* of an object is logged as an event of the call.                         *)
(***************************************************************************)
EXTENDS Integers, Sequences, FiniteSets, TLC

VARIABLES
    prefs,   \* the preferences store: cell -> stored CoreFoundation value
    root,    \* whether the process runs with root privileges
    call,    \* the last handler call: its arguments, result and events
    ncalls,  \* the number of handler calls made so far
    cv       \* the converter harness: input, encode result, decode result

vars == <<prefs, root, call, ncalls, cv>>

(***************************************************************************)
(* Bounds of the model.                                                    *)
(***************************************************************************)
MaxCalls == 2        \* handler calls in one behaviour
MaxLen == 2          \* elements of a generated slice, entries of a map

(***************************************************************************)
(* Program constants.                                                      *)
(***************************************************************************)
AppleEpochOffset == 978307200   \* seconds between 1970-01-01 and 2001-01-01

Min(S) == CHOOSE x \in S : \A y \in S : x <= y

(***************************************************************************)
(* Integers.  A Go integer is the exact number q * 2^63 + r, kept as the   *)
(* pair [q, r] with r small: the values near 0, near 2^63 and near 2^64    *)
(* are all exact, and 64-bit wrap-around is a change of q by 2.            *)
(***************************************************************************)
Z(q, r) == [q |-> q, r |-> r]

\* the value lies in the int64 range -2^63 .. 2^63-1
InInt64(n) ==
    \/ n.q = 0
    \/ n.q = -1 /\ n.r >= 0
    \/ n.q = 1 /\ n.r < 0

\* Go's int64(x) of an unsigned 64-bit x: the same 64 bits read as signed
WrapInt64(n) ==
    IF n.q % 2 = 0 THEN Z(0, n.r)
    ELSE IF n.r >= 0 THEN Z(-1, n.r) ELSE Z(1, n.r)

SignedKinds == {"int", "int8", "int16", "int32", "int64"}
UnsignedKinds == {"uint", "uint8", "uint16", "uint32", "uint64"}
IntKinds == SignedKinds \cup UnsignedKinds
FloatKinds == {"float32", "float64"}

(***************************************************************************)
(* Go values (interface{}).  A string and a []byte are sequences of bytes; *)
(* byte 0 is NUL and byte 255 never occurs in valid UTF-8.  A float is its *)
(* value in thousandths.  A time.Time is its Unix second, its nanosecond   *)
(* within that second and its location.  A map is the sequence of its      *)
(* entries in the order the runtime iterates over it.                      *)
(***************************************************************************)
GoNil == [k |-> "nil"]
GoString(s) == [k |-> "string", s |-> s]
GoBytes(b) == [k |-> "[]byte", b |-> b]
\* a byte slice too long to write out: n is its length as <<hi, lo>>, that is
\* hi * 65536 + lo; its bytes are left out
GoBytesOfLen(n) == [k |-> "[]byte", b |-> <<>>, n |-> n]
\* len(b) of a byte slice, as <<hi, lo>>
ByteLen(b) == IF "n" \in DOMAIN b THEN b.n ELSE <<0, Len(b.b)>>
Exceeds(m, n) == m[1] > n[1] \/ (m[1] = n[1] /\ m[2] > n[2])
MaxUint32 == <<65535, 65535>>
MaxInt32 == <<32767, 65535>>
GoBool(t) == [k |-> "bool", t |-> t]
GoTime(sec, nsec, loc) == [k |-> "time.Time", sec |-> sec, nsec |-> nsec, loc |-> loc]
GoInt(kind, n) == [k |-> kind, i |-> n]
GoFloat(kind, f) == [k |-> kind, f |-> f]
GoSlice(et, items) == [k |-> "slice", et |-> et, items |-> items]
GoMap(kt, vt, kv) == [k |-> "map", kt |-> kt, vt |-> vt, kv |-> kv]
GoStruct == [k |-> "struct"]
Entry(key, val) == [key |-> key, val |-> val]

MapKeys(kv) == {kv[i].key : i \in 1..Len(kv)}
MapAt(kv, key) == kv[CHOOSE i \in 1..Len(kv) : kv[i].key = key].val

\* reflect.DeepEqual on the values of the model
RECURSIVE DeepEqual(_, _)
DeepEqual(a, b) ==
    IF a.k # b.k THEN FALSE
    ELSE IF a.k = "slice" THEN
        /\ a.et = b.et
        /\ Len(a.items) = Len(b.items)
        /\ \A i \in 1..Len(a.items) : DeepEqual(a.items[i], b.items[i])
    ELSE IF a.k = "map" THEN
        /\ a.kt = b.kt /\ a.vt = b.vt
        /\ Len(a.kv) = Len(b.kv)
        /\ MapKeys(a.kv) = MapKeys(b.kv)
        /\ \A key \in MapKeys(a.kv) : DeepEqual(MapAt(a.kv, key), MapAt(b.kv, key))
    ELSE a = b

(***************************************************************************)
(* CoreFoundation objects.                                                 *)
(***************************************************************************)
NilCFType == [tag |-> "NULL"]
kCFBooleanTrue == [tag |-> "CFBoolean", id |-> <<0, 1>>, bv |-> TRUE]
kCFBooleanFalse == [tag |-> "CFBoolean", id |-> <<0, 0>>, bv |-> FALSE]
CFStringObj(id, s) == [tag |-> "CFString", id |-> id, str |-> s]
\* the object C.CFDataCreate makes of the slice b and C.CFIndex(len(b))
CFDataObj(id, b) == [tag |-> "CFData", id |-> id, dat |-> b.b, len |-> ByteLen(b)]
CFDateObj(id, at) == [tag |-> "CFDate", id |-> id, at |-> at]
CFArrayObj(id, items) == [tag |-> "CFArray", id |-> id, arr |-> items]
CFDictionaryObj(id, keys, values) ==
    [tag |-> "CFDictionary", id |-> id, dk |-> keys, dv |-> values]

IntegerFamily ==
    {"kCFNumberSInt8Type", "kCFNumberSInt16Type", "kCFNumberSInt32Type",
     "kCFNumberSInt64Type", "kCFNumberCharType", "kCFNumberShortType",
     "kCFNumberIntType", "kCFNumberLongType", "kCFNumberLongLongType",
     "kCFNumberCFIndexType", "kCFNumberNSIntegerType"}
FloatFamily ==
    {"kCFNumberFloat32Type", "kCFNumberFloat64Type", "kCFNumberFloatType",
     "kCFNumberDoubleType"}

\* CFNumberCreate: the number keeps the storage type it was created with,
\* which CFNumberGetType reports as the fixed-width type of that storage
CFNumberCreate(id, theType, n) ==
    IF theType = "kCFNumberLongLongType"
    THEN [tag |-> "CFNumber", id |-> id, nt |-> "kCFNumberSInt64Type", ll |-> n]
    ELSE [tag |-> "CFNumber", id |-> id, nt |-> "kCFNumberFloat64Type", dbl |-> n]

(***************************************************************************)
(* Events of a call and results of a conversion.                           *)
(***************************************************************************)
Ev(op, obj) == [op |-> op, id |-> obj.id, tag |-> obj.tag]
Created(obj) == <<Ev("create", obj)>>

Ok(ref, ev) == [st |-> "ok", ref |-> ref, err |-> "", ev |-> ev]
Err(msg, ev) == [st |-> "err", ref |-> NilCFType, err |-> msg, ev |-> ev]
\* a Go panic: the deferred calls of the callers run, then the process ends
Panic(msg, ev) == [st |-> "panic", ref |-> NilCFType, err |-> msg, ev |-> ev]
\* a trap inside CoreFoundation: the process ends at once
Crash(msg, ev) == [st |-> "crash", ref |-> NilCFType, err |-> msg, ev |-> ev]
Aborted(r) == r.st \in {"panic", "crash"}

\* release (part_000) and Release (foundation.go): CFRelease unless NULL
release(ref) == IF ref # NilCFType THEN <<Ev("release", ref)>> ELSE <<>>

\* a direct call of C.CFRelease; on NULL the process traps
CFRelease(ref) == <<Ev("release", ref)>>

(***************************************************************************)
(* Strings, data and dates.                                                *)
(***************************************************************************)
\* C.CString(s) read as a C string: the bytes before the first NUL
CString(s) ==
    LET nul == {i \in 1..Len(s) : s[i] = 0}
    IN  IF nul = {} THEN s ELSE SubSeq(s, 1, Min(nul) - 1)

ValidUTF8(s) == \A i \in 1..Len(s) : s[i] < 128

stringToCFString(s, id) ==
    LET cstr == CString(s)
    IN  IF ~ValidUTF8(cstr)
        THEN Err("CFStringCreateWithCString failed", <<>>)
        ELSE Ok(CFStringObj(id, cstr), Created(CFStringObj(id, cstr)))

cfStringToString(cfStr) == IF Len(cfStr.str) = 0 THEN <<>> ELSE cfStr.str

\* bytesToCFData taking &b[0] whatever the length
bytesToCFDataIndexing(b, id) ==
    IF Exceeds(ByteLen(b), MaxUint32) THEN Err("data is too large", <<>>)
    ELSE IF ByteLen(b) = <<0, 0>> THEN Panic("index out of range", <<>>)
    ELSE Ok(CFDataObj(id, b), Created(CFDataObj(id, b)))

\* bytesToCFData refusing the length math.MaxUint32 too
bytesToCFDataOffByOne(b, id) ==
    IF ~Exceeds(MaxUint32, ByteLen(b)) THEN Err("data is too large", <<>>)
    ELSE Ok(CFDataObj(id, b), Created(CFDataObj(id, b)))

\* b is the byte slice; CFDataCreate is taken to return an object
bytesToCFData(b, id) ==
    IF Exceeds(ByteLen(b), MaxUint32) THEN Err("data is too large", <<>>)
    ELSE Ok(CFDataObj(id, b), Created(CFDataObj(id, b)))

cfDataToBytes(cfData) == cfData.dat

\* a CFAbsoluteTime is sec + frac/10 seconds, with 0 <= frac < 10
\* timeToCFDate rounding the timestamp to the nearest second
timeToCFDateRounding(t, id) ==
    CFDateObj(id, [sec |-> t.sec + (IF t.nsec >= 500000000 THEN 1 ELSE 0)
                               - AppleEpochOffset,
                   frac |-> 0])

timeToCFDate(t, id) == CFDateObj(id, [sec |-> t.sec - AppleEpochOffset, frac |-> 0])

\* int64(seconds + 978307200) rounds toward zero
cfDateToTime(dateRef) ==
    LET u == dateRef.at.sec + AppleEpochOffset
    IN  GoTime(IF dateRef.at.frac > 0 /\ u < 0 THEN u + 1 ELSE u, 0, "UTC")

(***************************************************************************)
(* Sequence helpers.                                                       *)
(***************************************************************************)
Reverse(s) == [i \in 1..Len(s) |-> s[Len(s) + 1 - i]]

\* the subsequence of s at the indexes in idx, from index i on
RECURSIVE Sub(_, _, _)
Sub(s, idx, i) ==
    IF i > Len(s) THEN <<>>
    ELSE (IF i \in idx THEN <<s[i]>> ELSE <<>>) \o Sub(s, idx, i + 1)

RECURSIVE Flatten(_)
Flatten(ss) == IF ss = <<>> THEN <<>> ELSE Head(ss) \o Flatten(Tail(ss))

(***************************************************************************)
(* The environment of one conversion: ord is the order in which the Go     *)
(* runtime iterates over the map of native references (forward or reverse  *)
(* of insertion), alloc is whether CFDataCreate and CFDictionaryCreate     *)
(* return an object.                                                       *)
(***************************************************************************)
Envs == [ord : {"fwd", "rev"}, alloc : BOOLEAN]

\* CFArrayCreate with kCFTypeArrayCallBacks: retains every value; a NULL
\* value traps in CFRetain
CFArrayCreate(id, refs, ev) ==
    IF \E i \in 1..Len(refs) : refs[i] = NilCFType
    THEN Crash("CFRetain(NULL)", ev)
    ELSE Ok(CFArrayObj(id, refs),
            ev \o Created(CFArrayObj(id, refs))
               \o [i \in 1..Len(refs) |-> Ev("retain", refs[i])])

\* CFDictionaryCreate with the CFType callbacks: adds the pairs in order and
\* retains what it adds; a pair whose key equals an earlier key is not added
CFDictionaryCreate(id, ents, alloc, ev) ==
    IF ~alloc THEN Err("CFDictionaryCreate failed", ev)
    ELSE IF \E i \in 1..Len(ents) : ents[i].val = NilCFType
    THEN Crash("CFRetain(NULL)", ev)
    ELSE LET idx == {i \in 1..Len(ents) :
                        \A j \in 1..(i - 1) : ents[j].key.str # ents[i].key.str}
             kept == Sub(ents, idx, 1)
             obj == CFDictionaryObj(id, [i \in 1..Len(kept) |-> kept[i].key],
                                        [i \in 1..Len(kept) |-> kept[i].val])
         IN  Ok(obj, ev \o Created(obj)
                        \o Flatten([i \in 1..Len(kept) |->
                                      <<Ev("retain", kept[i].key),
                                        Ev("retain", kept[i].val)>>]))

\* mapToCFDictionary (part_000) and MapToCFDictionary (foundation.go):
\* m is the sequence of [key, val] pairs of the Go map of references
mapToCFDictionary(m, id, env, ev) ==
    IF Len(m) = 0 THEN Panic("index out of range", ev)   \* &keys[0]
    ELSE CFDictionaryCreate(id, IF env.ord = "fwd" THEN m ELSE Reverse(m),
                            env.alloc, ev)

(***************************************************************************)
(* The encoders: convertToCFType of part_000 and ConvertToCFType of        *)
(* foundation.go.  lib names the variant a shared loop recurses into.      *)
(***************************************************************************)
RECURSIVE convertToCFType(_, _, _)
RECURSIVE ConvertToCFType(_, _, _)
RECURSIVE sliceLoop(_, _, _, _, _, _, _)
RECURSIVE mapLoop(_, _, _, _, _, _, _)

Conv(lib, value, id, env) ==
    IF lib = "part_000" THEN convertToCFType(value, id, env)
    ELSE ConvertToCFType(value, id, env)

\* the loop over the elements and the CFArrayCreate that follows it
sliceLoop(lib, items, i, id, env, refs, ev) ==
    IF i > Len(items)
    THEN IF Len(items) = 0 THEN Panic("index out of range", ev)   \* &cfValues[0]
         ELSE CFArrayCreate(id, refs, ev)
    ELSE LET r == Conv(lib, items[i], id \o <<i>>, env)
         IN  IF Aborted(r) \/ r.st = "err" THEN [r EXCEPT !.ev = ev \o r.ev]
             ELSE sliceLoop(lib, items, i + 1, id, env, Append(refs, r.ref), ev \o r.ev)

convertSliceToCFArray(items, id, env) ==
    sliceLoop("part_000", items, 1, id, env, <<>>, <<>>)

\* the loop over the entries, then mapToCFDictionary and its error path
mapLoop(lib, kv, i, id, env, m, ev) ==
    IF i > Len(kv)
    THEN LET d == mapToCFDictionary(m, id, env, ev)
         IN  IF d.st # "err" THEN d
             ELSE IF \E j \in 1..Len(m) : m[j].val = NilCFType
             THEN Crash("CFRelease(NULL)", d.ev)
             ELSE Err(d.err, d.ev \o Flatten([j \in 1..Len(m) |->
                                    CFRelease(m[j].key) \o CFRelease(m[j].val)]))
    ELSE LET kr == stringToCFString(kv[i].key, id \o <<2 * i - 1>>)
         IN  IF kr.st = "err" THEN Err(kr.err, ev)
             ELSE LET vr == Conv(lib, kv[i].val, id \o <<2 * i>>, env)
                  IN  IF Aborted(vr) THEN [vr EXCEPT !.ev = ev \o kr.ev \o vr.ev]
                      ELSE IF vr.st = "err"
                      THEN Err(vr.err, ev \o kr.ev \o vr.ev \o CFRelease(kr.ref))
                      ELSE mapLoop(lib, kv, i + 1, id, env,
                                   Append(m, Entry(kr.ref, vr.ref)),
                                   ev \o kr.ev \o vr.ev)

convertMapToCFDictionary(kv, id, env) ==
    mapLoop("part_000", kv, 1, id, env, <<>>, <<>>)

ConvertMapToCFDictionary(kv, id, env) ==
    mapLoop("foundation", kv, 1, id, env, <<>>, <<>>)

convertToCFType(value, id, env) ==
    IF value.k = "nil" THEN Ok(NilCFType, <<>>)
    ELSE IF value.k = "string" THEN stringToCFString(value.s, id)
    ELSE IF value.k = "[]byte" THEN
        IF env.alloc \/ bytesToCFData(value, id).st # "ok"
        THEN bytesToCFData(value, id)
        ELSE Err("CFDataCreate failed", <<>>)
    ELSE IF value.k = "bool" THEN
        Ok(IF value.t THEN kCFBooleanTrue ELSE kCFBooleanFalse, <<>>)
    ELSE IF value.k = "time.Time" THEN
        Ok(timeToCFDate(value, id), Created(timeToCFDate(value, id)))
    ELSE IF value.k \in SignedKinds THEN
        LET numRef == CFNumberCreate(id, "kCFNumberLongLongType", value.i)
        IN  Ok(numRef, Created(numRef))
    ELSE IF value.k \in UnsignedKinds THEN
        Panic("reflect: call of reflect.Value.Int on uint Value", <<>>)
    ELSE IF value.k \in FloatKinds THEN
        LET numRef == CFNumberCreate(id, "kCFNumberDoubleType", value.f)
        IN  Ok(numRef, Created(numRef))
    ELSE IF value.k = "slice" THEN convertSliceToCFArray(value.items, id, env)
    ELSE IF value.k = "map" /\ value.kt = "string" THEN
        IF value.vt = "interface{}" THEN convertMapToCFDictionary(value.kv, id, env)
        ELSE Panic("interface conversion", <<>>)
    ELSE Err("unsupported type", <<>>)

ConvertToCFType(value, id, env) ==
    IF value.k = "string" THEN stringToCFString(value.s, id)
    ELSE IF value.k = "[]byte" THEN
        IF env.alloc \/ bytesToCFData(value, id).st # "ok"
        THEN bytesToCFData(value, id)
        ELSE Err("CFDataCreate failed", <<>>)
    ELSE IF value.k = "bool" THEN
        Ok(IF value.t THEN kCFBooleanTrue ELSE kCFBooleanFalse, <<>>)
    ELSE IF value.k = "time.Time" THEN
        Ok(timeToCFDate(value, id), Created(timeToCFDate(value, id)))
    ELSE IF value.k \in IntKinds \cup FloatKinds THEN
        LET int64Value == IF value.k \in SignedKinds THEN value.i
                          ELSE IF value.k \in UnsignedKinds THEN WrapInt64(value.i)
                          ELSE Z(0, 0)
            floatValue == IF value.k \in FloatKinds THEN value.f ELSE 0
            numRef == IF floatValue # 0
                      THEN CFNumberCreate(id, "kCFNumberDoubleType", floatValue)
                      ELSE CFNumberCreate(id, "kCFNumberLongLongType", int64Value)
        IN  Ok(numRef, Created(numRef))
    ELSE IF value.k = "slice" /\ value.et = "interface{}" THEN
        sliceLoop("foundation", value.items, 1, id, env, <<>>, <<>>)
    ELSE IF value.k = "map" /\ value.kt = "string" /\ value.vt = "interface{}" THEN
        ConvertMapToCFDictionary(value.kv, id, env)
    ELSE Err("unsupported type", <<>>)

(***************************************************************************)
(* The decoders: convertFromCFType of part_000 and ConvertFromCFType of    *)
(* foundation.go.                                                          *)
(***************************************************************************)
Val(v) == [st |-> "ok", val |-> v, err |-> ""]
DErr(msg) == [st |-> "err", val |-> GoNil, err |-> msg]
DPanic(msg) == [st |-> "panic", val |-> GoNil, err |-> msg]
DCrash(msg) == [st |-> "crash", val |-> GoNil, err |-> msg]
\* a native call on an object of the wrong type: what follows is undefined
DUndefined(msg) == [st |-> "undefined", val |-> GoNil, err |-> msg]

RECURSIVE convertFromCFType(_)
RECURSIVE ConvertFromCFType(_)
RECURSIVE arrayLoop(_, _, _, _)
RECURSIVE dictLoop(_, _, _)

From(lib, cfType) ==
    IF lib = "part_000" THEN convertFromCFType(cfType) ELSE ConvertFromCFType(cfType)

arrayLoop(lib, arr, i, result) ==
    IF i > Len(arr) THEN Val(GoSlice("interface{}", result))
    ELSE LET r == From(lib, arr[i])
         IN  IF r.st = "ok" THEN arrayLoop(lib, arr, i + 1, Append(result, r.val))
             ELSE r

dictLoop(cfDict, i, result) ==
    IF i > Len(cfDict.dk) THEN Val(GoMap("string", "interface{}", result))
    ELSE IF cfDict.dk[i].tag # "CFString"
    THEN DUndefined("CFStringGetLength of an object that is no CFString")
    ELSE LET key == cfStringToString(cfDict.dk[i])
             r == convertFromCFType(cfDict.dv[i])
         IN  IF r.st = "ok"
             THEN dictLoop(cfDict, i + 1, Append(result, Entry(key, r.val)))
             ELSE r

convertFromCFType(cfType) ==
    IF cfType.tag = "NULL" THEN DCrash("CFGetTypeID(NULL)")
    ELSE IF cfType.tag = "CFString" THEN Val(GoString(cfStringToString(cfType)))
    ELSE IF cfType.tag = "CFData" THEN
        \* C.int(C.CFDataGetLength(cfData)) is negative from 2^31 on
        IF Exceeds(cfType.len, MaxInt32) THEN DPanic("gobytes: length out of range")
        ELSE Val(GoBytes(cfDataToBytes(cfType)))
    ELSE IF cfType.tag = "CFBoolean" THEN Val(GoBool(cfType.bv))
    ELSE IF cfType.tag = "CFDate" THEN Val(cfDateToTime(cfType))
    ELSE IF cfType.tag = "CFNumber" THEN
        IF cfType.nt \in IntegerFamily THEN Val(GoInt("int", cfType.ll))
        ELSE IF cfType.nt \in FloatFamily THEN Val(GoFloat("float64", cfType.dbl))
        ELSE DErr("unsupported CFNumber type")
    ELSE IF cfType.tag = "CFArray" THEN arrayLoop("part_000", cfType.arr, 1, <<>>)
    ELSE IF cfType.tag = "CFDictionary" THEN
        IF Len(cfType.dk) = 0 THEN DPanic("index out of range")   \* &keys[0]
        ELSE dictLoop(cfType, 1, <<>>)
    ELSE DErr("unsupported CFTypeRef type")

ConvertFromCFType(cfType) ==
    IF cfType.tag = "NULL" THEN DCrash("CFGetTypeID(NULL)")
    ELSE IF cfType.tag = "CFString" THEN Val(GoString(cfStringToString(cfType)))
    ELSE IF cfType.tag = "CFData" THEN
        \* C.int(C.CFDataGetLength(cfData)) is negative from 2^31 on
        IF Exceeds(cfType.len, MaxInt32) THEN DPanic("gobytes: length out of range")
        ELSE Val(GoBytes(cfDataToBytes(cfType)))
    ELSE IF cfType.tag = "CFBoolean" THEN Val(GoBool(cfType.bv))
    ELSE IF cfType.tag = "CFDate" THEN Val(cfDateToTime(cfType))
    ELSE IF cfType.tag = "CFNumber" THEN
        IF cfType.nt \in IntegerFamily THEN Val(GoInt("int64", cfType.ll))
        ELSE IF cfType.nt \in FloatFamily THEN Val(GoFloat("float64", cfType.dbl))
        ELSE DErr("unsupported CFNumber type")
    ELSE IF cfType.tag = "CFArray" THEN arrayLoop("foundation", cfType.arr, 1, <<>>)
    ELSE DErr("unsupported CFTypeRef type")

(***************************************************************************)
(* The preferences store (CFPreferences).  A cell is a key in an           *)
(* application's domain for one user and one host; it holds a copy of the  *)
(* value written, or NULL.                                                 *)
(***************************************************************************)
CurrentUser == "kCFPreferencesCurrentUser"
AnyUser == "kCFPreferencesAnyUser"
CurrentHost == "kCFPreferencesCurrentHost"
AnyHost == "kCFPreferencesAnyHost"
Scope(user, host) == [User |-> user, Host |-> host]
CurrentUserCurrentHost == Scope(CurrentUser, CurrentHost)
CurrentUserAnyHost == Scope(CurrentUser, AnyHost)
AnyUserCurrentHost == Scope(AnyUser, CurrentHost)
AnyUserAnyHost == Scope(AnyUser, AnyHost)

Cell(cKey, cAppID, cUserName, cHostName) ==
    [key |-> cKey.str, app |-> cAppID.str, user |-> cUserName, host |-> cHostName]

\* a copy of an object, created at id: an object of its own with its own members
RECURSIVE CopyAt(_, _)
CopyAt(obj, id) ==
    IF obj.tag \in {"NULL", "CFBoolean"} THEN obj
    ELSE IF obj.tag = "CFArray" THEN
        CFArrayObj(id, [i \in 1..Len(obj.arr) |-> CopyAt(obj.arr[i], id \o <<i>>)])
    ELSE IF obj.tag = "CFDictionary" THEN
        CFDictionaryObj(id,
            [i \in 1..Len(obj.dk) |-> CopyAt(obj.dk[i], id \o <<2 * i - 1>>)],
            [i \in 1..Len(obj.dv) |-> CopyAt(obj.dv[i], id \o <<2 * i>>)])
    ELSE [obj EXCEPT !.id = id]

\* CFPreferencesSetValue and CFPreferencesSetAppValue: the store keeps its own
\* copy of the value; a NULL value removes the key
CFPreferencesSetValue(store, cell, cValue) ==
    IF cValue = NilCFType
    THEN [c \in DOMAIN store \ {cell} |-> store[c]]
    ELSE [c \in DOMAIN store \cup {cell} |->
            IF c = cell THEN CopyAt(cValue, <<>>) ELSE store[c]]

\* CFPreferencesCopyValue: a new object the caller owns, or NULL
CFPreferencesCopyValue(store, cell, id) ==
    IF cell \in DOMAIN store THEN CopyAt(store[cell], id) ELSE NilCFType

(***************************************************************************)
(* The handlers.  Each is the whole call: its result, the events of the    *)
(* call in order (the deferred releases run last, in reverse order of      *)
(* their defer statements, also when the call panics) and the store after  *)
(* the call.  success is what the store's synchronize call reports; when   *)
(* it reports failure, kept tells whether the value written before it is   *)
(* still what the store returns.                                           *)
(***************************************************************************)
Ret(st, err, res, ev, store) ==
    [st |-> st, err |-> err, res |-> res, ev |-> ev, store |-> store]

StoreCall(name, id, ref) == <<[op |-> name, id |-> id, tag |-> ref.tag]>>

\* Set releasing the encoded value as soon as it is made, not on return
SetStepsReleasingEarly(cKey, cValue, cAppID, scope, success, kept, store) ==
    LET dValue == IF cValue.ref # NilCFType THEN release(cValue.ref) ELSE <<>>
        ev2 == cKey.ev \o cValue.ev \o dValue
        d2 == release(cKey.ref)
        d3 == release(cAppID.ref) \o d2
        cell == Cell(cKey.ref, cAppID.ref, scope.User, scope.Host)
        written == CFPreferencesSetValue(store, cell, cValue.ref)
        ev4 == ev2 \o cAppID.ev \o StoreCall("CFPreferencesSetValue", <<2>>, cValue.ref)
    IN  IF cKey.st = "err"
        THEN Ret("ok", "error creating CFString for key", GoNil, cKey.ev, store)
        ELSE IF cValue.st = "crash"
        THEN Ret("crash", cValue.err, GoNil, ev2, store)
        ELSE IF cValue.st = "panic"
        THEN Ret("panic", cValue.err, GoNil, ev2 \o d2, store)
        ELSE IF cValue.st = "err"
        THEN Ret("ok", "error converting value to CFType", GoNil, ev2 \o d2, store)
        ELSE IF cAppID.st = "err"
        THEN Ret("ok", "error creating CFString for applicationID", GoNil,
                 ev2 \o cAppID.ev \o d2, store)
        ELSE IF scope.User \notin {CurrentUser, AnyUser}
        THEN Ret("ok", "invalid user type in scope", GoNil,
                 ev2 \o cAppID.ev \o d3, store)
        ELSE IF scope.Host \notin {CurrentHost, AnyHost}
        THEN Ret("ok", "invalid host type in scope", GoNil,
                 ev2 \o cAppID.ev \o d3, store)
        ELSE IF ~success
        THEN Ret("ok", "failed to synchronize preferences", GoNil, ev4 \o d3,
                 IF kept THEN written ELSE store)
        ELSE Ret("ok", "", GoNil, ev4 \o d3, written)

\* Set from its three conversions on
SetSteps(cKey, cValue, cAppID, scope, success, kept, store) ==
    LET ev2 == cKey.ev \o cValue.ev
        dValue == IF cValue.ref # NilCFType THEN release(cValue.ref) ELSE <<>>
        d2 == dValue \o release(cKey.ref)
        d3 == release(cAppID.ref) \o d2
        cell == Cell(cKey.ref, cAppID.ref, scope.User, scope.Host)
        written == CFPreferencesSetValue(store, cell, cValue.ref)
        ev4 == ev2 \o cAppID.ev \o StoreCall("CFPreferencesSetValue", <<2>>, cValue.ref)
    IN  IF cKey.st = "err"
        THEN Ret("ok", "error creating CFString for key", GoNil, cKey.ev, store)
        ELSE IF cValue.st = "crash"
        THEN Ret("crash", cValue.err, GoNil, ev2, store)
        ELSE IF cValue.st = "panic"
        THEN Ret("panic", cValue.err, GoNil, ev2 \o release(cKey.ref), store)
        ELSE IF cValue.st = "err"
        THEN Ret("ok", "error converting value to CFType", GoNil,
                 ev2 \o release(cKey.ref), store)
        ELSE IF cAppID.st = "err"
        THEN Ret("ok", "error creating CFString for applicationID", GoNil,
                 ev2 \o cAppID.ev \o d2, store)
        ELSE IF scope.User \notin {CurrentUser, AnyUser}
        THEN Ret("ok", "invalid user type in scope", GoNil,
                 ev2 \o cAppID.ev \o d3, store)
        ELSE IF scope.Host \notin {CurrentHost, AnyHost}
        THEN Ret("ok", "invalid host type in scope", GoNil,
                 ev2 \o cAppID.ev \o d3, store)
        ELSE IF ~success
        THEN Ret("ok", "failed to synchronize preferences", GoNil, ev4 \o d3,
                 IF kept THEN written ELSE store)
        ELSE Ret("ok", "", GoNil, ev4 \o d3, written)

Set(key, value, applicationID, scope, env, success, kept, store) ==
    SetSteps(stringToCFString(key, <<1>>), convertToCFType(value, <<2>>, env),
             stringToCFString(applicationID, <<3>>), scope, success, kept, store)

\* SetApp without the test of what CFPreferencesAppSynchronize returned
SetAppStepsIgnoringSync(cKey, cValue, cAppID, success, kept, store) ==
    LET ev2 == cKey.ev \o cValue.ev
        dValue == IF cValue.ref # NilCFType THEN release(cValue.ref) ELSE <<>>
        d2 == dValue \o release(cKey.ref)
        d3 == release(cAppID.ref) \o d2
        cell == Cell(cKey.ref, cAppID.ref, CurrentUser, AnyHost)
        written == CFPreferencesSetValue(store, cell, cValue.ref)
        ev4 == ev2 \o cAppID.ev
                   \o StoreCall("CFPreferencesSetAppValue", <<2>>, cValue.ref)
    IN  IF cKey.st = "err"
        THEN Ret("ok", "error creating CFString for key", GoNil, cKey.ev, store)
        ELSE IF cValue.st = "crash"
        THEN Ret("crash", cValue.err, GoNil, ev2, store)
        ELSE IF cValue.st = "panic"
        THEN Ret("panic", cValue.err, GoNil, ev2 \o release(cKey.ref), store)
        ELSE IF cValue.st = "err"
        THEN Ret("ok", "error converting value to CFType", GoNil,
                 ev2 \o release(cKey.ref), store)
        ELSE IF cAppID.st = "err"
        THEN Ret("ok", "error creating CFString for applicationID", GoNil,
                 ev2 \o cAppID.ev \o d2, store)
        ELSE Ret("ok", "", GoNil, ev4 \o d3,
                 IF success \/ kept THEN written ELSE store)

\* SetApp from its three conversions on
SetAppSteps(cKey, cValue, cAppID, success, kept, store) ==
    LET ev2 == cKey.ev \o cValue.ev
        dValue == IF cValue.ref # NilCFType THEN release(cValue.ref) ELSE <<>>
        d2 == dValue \o release(cKey.ref)
        d3 == release(cAppID.ref) \o d2
        cell == Cell(cKey.ref, cAppID.ref, CurrentUser, AnyHost)
        written == CFPreferencesSetValue(store, cell, cValue.ref)
        ev4 == ev2 \o cAppID.ev
                   \o StoreCall("CFPreferencesSetAppValue", <<2>>, cValue.ref)
    IN  IF cKey.st = "err"
        THEN Ret("ok", "error creating CFString for key", GoNil, cKey.ev, store)
        ELSE IF cValue.st = "crash"
        THEN Ret("crash", cValue.err, GoNil, ev2, store)
        ELSE IF cValue.st = "panic"
        THEN Ret("panic", cValue.err, GoNil, ev2 \o release(cKey.ref), store)
        ELSE IF cValue.st = "err"
        THEN Ret("ok", "error converting value to CFType", GoNil,
                 ev2 \o release(cKey.ref), store)
        ELSE IF cAppID.st = "err"
        THEN Ret("ok", "error creating CFString for applicationID", GoNil,
                 ev2 \o cAppID.ev \o d2, store)
        ELSE IF ~success
        THEN Ret("ok", "failed to synchronize preferences", GoNil, ev4 \o d3,
                 IF kept THEN written ELSE store)
        ELSE Ret("ok", "", GoNil, ev4 \o d3, written)

SetApp(key, value, appID, env, success, kept, store) ==
    SetAppSteps(stringToCFString(key, <<1>>), convertToCFType(value, <<2>>, env),
                stringToCFString(appID, <<3>>), success, kept, store)

\* the end of Get: the value copied from the store is decoded, then the
\* deferred releases run
GetFound(dec, ev3, deferred, store) ==
    IF dec.st = "crash" THEN Ret("crash", dec.err, GoNil, ev3, store)
    ELSE IF dec.st = "panic" THEN Ret("panic", dec.err, GoNil, ev3 \o deferred, store)
    ELSE Ret("ok", dec.err, dec.val, ev3 \o deferred, store)

\* Get without the check of the copied value against NilCFType
GetStepsDecodingNull(cKey, cAppID, scope, store) ==
    LET d2 == release(cAppID.ref) \o release(cKey.ref)
        ev2 == cKey.ev \o cAppID.ev
        cell == Cell(cKey.ref, cAppID.ref, scope.User, scope.Host)
        value == CFPreferencesCopyValue(store, cell, <<4>>)
        ev3 == ev2 \o (IF value = NilCFType THEN <<>> ELSE Created(value))
                   \o StoreCall("convertFromCFType", <<4>>, value)
    IN  IF cKey.st = "err"
        THEN Ret("ok", "error creating CFString for key", GoNil, cKey.ev, store)
        ELSE IF cAppID.st = "err"
        THEN Ret("ok", "error creating CFString for applicationID", GoNil,
                 ev2 \o release(cKey.ref), store)
        ELSE IF scope.User \notin {CurrentUser, AnyUser}
        THEN Ret("ok", "invalid user type in scope", GoNil, ev2 \o d2, store)
        ELSE IF scope.Host \notin {CurrentHost, AnyHost}
        THEN Ret("ok", "invalid host type in scope", GoNil, ev2 \o d2, store)
        ELSE GetFound(convertFromCFType(value), ev3, release(value) \o d2, store)

\* Get from its two string conversions on
GetSteps(cKey, cAppID, scope, store) ==
    LET d2 == release(cAppID.ref) \o release(cKey.ref)
        ev2 == cKey.ev \o cAppID.ev
        cell == Cell(cKey.ref, cAppID.ref, scope.User, scope.Host)
        value == CFPreferencesCopyValue(store, cell, <<4>>)
        ev3 == ev2 \o Created(value)
                   \o StoreCall("convertFromCFType", <<4>>, value)
    IN  IF cKey.st = "err"
        THEN Ret("ok", "error creating CFString for key", GoNil, cKey.ev, store)
        ELSE IF cAppID.st = "err"
        THEN Ret("ok", "error creating CFString for applicationID", GoNil,
                 ev2 \o release(cKey.ref), store)
        ELSE IF scope.User \notin {CurrentUser, AnyUser}
        THEN Ret("ok", "invalid user type in scope", GoNil, ev2 \o d2, store)
        ELSE IF scope.Host \notin {CurrentHost, AnyHost}
        THEN Ret("ok", "invalid host type in scope", GoNil, ev2 \o d2, store)
        ELSE IF value = NilCFType
        THEN Ret("ok", "", GoNil, ev2 \o d2, store)   \* Preference not found
        ELSE GetFound(convertFromCFType(value), ev3, release(value) \o d2, store)

Get(key, applicationID, scope, store) ==
    GetSteps(stringToCFString(key, <<1>>), stringToCFString(applicationID, <<3>>),
             scope, store)

\* GetApp without its deferred release of the key string
GetAppStepsLeakingKey(cKey, cAppID, got) ==
    IF cKey.st = "err"
    THEN Ret("ok", "error creating CFString for key", GoNil, cKey.ev, got.store)
    ELSE IF cAppID.st = "err"
    THEN Ret("ok", "error creating CFString for applicationID", GoNil,
             cKey.ev \o cAppID.ev, got.store)
    ELSE IF got.st = "crash"
    THEN [got EXCEPT !.ev = cKey.ev \o cAppID.ev \o got.ev]
    ELSE [got EXCEPT !.ev = cKey.ev \o cAppID.ev \o got.ev \o release(cAppID.ref)]

\* GetApp from its two string conversions on; got is what its call of Get
\* returns
GetAppSteps(cKey, cAppID, got) ==
    IF cKey.st = "err"
    THEN Ret("ok", "error creating CFString for key", GoNil, cKey.ev, got.store)
    ELSE IF cAppID.st = "err"
    THEN Ret("ok", "error creating CFString for applicationID", GoNil,
             cKey.ev \o cAppID.ev \o release(cKey.ref), got.store)
    ELSE IF got.st = "crash"
    THEN [got EXCEPT !.ev = cKey.ev \o cAppID.ev \o got.ev]
    ELSE [got EXCEPT !.ev = cKey.ev \o cAppID.ev \o got.ev
                            \o release(cAppID.ref) \o release(cKey.ref)]

GetApp(key, appID, store) ==
    GetAppSteps(stringToCFString(key, <<5>>), stringToCFString(appID, <<6>>),
                Get(key, appID, CurrentUserAnyHost, store))

(***************************************************************************)
(* Inputs.                                                                 *)
(***************************************************************************)
SeqsUpTo(S, n) == UNION {[1..m -> S] : m \in 0..n}

Distinct(kv) == \A i, j \in 1..Len(kv) : kv[i].key = kv[j].key => i = j

StringInputs ==
    {<<>>, <<97>>, <<97, 98>>, <<97, 0, 98>>, <<97, 0, 99>>, <<255>>}

TimeInputs ==
    {GoTime(1682942400, 0, "UTC"),        \* 2023-05-01T12:00:00Z
     GoTime(1682942400, 0, "Local"),
     GoTime(1682942400, 500000000, "UTC"),
     GoTime(978307200, 0, "UTC"),         \* 2001-01-01T00:00:00Z
     GoTime(978307199, 0, "UTC"),
     GoTime(0, 0, "UTC"),                 \* 1970-01-01T00:00:00Z
     GoTime(-1, 0, "UTC"),
     GoTime(-1, 500000000, "UTC"),        \* 1969-12-31T23:59:59.5Z
     GoTime(-86400, 250000000, "Local")}

IntInputs ==
    {GoInt("int", Z(0, 0)), GoInt("int", Z(0, 42)), GoInt("int", Z(0, -7)),
     GoInt("int8", Z(0, -128)), GoInt("int16", Z(0, 300)),
     GoInt("int32", Z(0, -70000)), GoInt("int64", Z(1, -1)),
     GoInt("int64", Z(-1, 0)),
     GoInt("uint", Z(0, 5)), GoInt("uint8", Z(0, 200)), GoInt("uint16", Z(0, 0)),
     GoInt("uint32", Z(0, 70000)), GoInt("uint64", Z(1, -1)),
     GoInt("uint64", Z(1, 0)), GoInt("uint64", Z(2, -1))}

FloatInputs ==
    {GoFloat("float64", 3140), GoFloat("float64", 0), GoFloat("float64", -2500),
     GoFloat("float64", 42000), GoFloat("float32", 1500), GoFloat("float32", 0)}

Scalars ==
    {GoString(x) : x \in StringInputs}
        \cup {GoBytes(<<>>), GoBytes(<<1, 0, 255>>)}
        \cup {GoBool(TRUE), GoBool(FALSE)}
        \cup TimeInputs \cup IntInputs \cup FloatInputs

\* the members of generated slices and maps
Elems ==
    {GoString(<<97>>), GoString(<<255>>), GoInt("int", Z(0, 30)),
     GoFloat("float64", 0), GoBool(TRUE), GoNil, GoStruct}
MapValues == {GoString(<<97>>), GoInt("int", Z(0, 30)), GoBool(FALSE), GoStruct}
MapKeyInputs == {<<97>>, <<98>>, <<97, 0, 98>>, <<255>>}

SliceInputs ==
    {GoSlice("interface{}", x) : x \in SeqsUpTo(Elems, MaxLen)}
        \cup {GoSlice("string", x) :
                 x \in SeqsUpTo({GoString(<<97>>), GoString(<<98, 0>>)}, MaxLen)}

MapInputs ==
    {GoMap("string", "interface{}", kv) :
        kv \in {x \in SeqsUpTo([key : MapKeyInputs, val : MapValues], MaxLen) :
                   Distinct(x)}}
        \cup {GoMap("string", "int", <<Entry(<<97>>, GoInt("int", Z(0, 1)))>>),
              GoMap("int", "interface{}", <<>>)}

NestedInputs ==
    {GoSlice("interface{}", <<GoSlice("interface{}", <<GoString(<<97>>)>>),
                              GoInt("int", Z(0, 1))>>),
     GoSlice("interface{}", <<GoString(<<97>>),
                              GoSlice("interface{}", <<GoStruct>>)>>),
     GoSlice("interface{}", <<GoMap("string", "interface{}",
                                    <<Entry(<<97>>, GoBool(TRUE))>>)>>),
     GoMap("string", "interface{}",
           <<Entry(<<110>>, GoString(<<74>>)), Entry(<<103>>, GoInt("int", Z(0, 30))),
             Entry(<<99>>, GoString(<<78, 89>>))>>),
     GoMap("string", "interface{}",
           <<Entry(<<97>>, GoSlice("interface{}", <<GoString(<<97>>), GoFloat("float64", 1500)>>)),
             Entry(<<98>>, GoTime(1682942400, 0, "UTC"))>>),
     GoMap("string", "interface{}",
           <<Entry(<<97>>, GoString(<<98>>)),
             Entry(<<98>>, GoMap("string", "interface{}",
                                 <<Entry(<<97>>, GoString(<<255>>))>>))>>)}

\* byte slices of 2^31 - 1, 2^31, 2^32 - 1, 2^32 and 2^32 + 1 bytes
LongBytesInputs ==
    {GoBytesOfLen(n) : n \in {<<32767, 65535>>, <<32768, 0>>, <<65535, 65535>>,
                              <<65536, 0>>, <<65536, 1>>}}

Inputs ==
    Scalars \cup {GoNil, GoStruct} \cup SliceInputs \cup MapInputs \cup NestedInputs
        \cup LongBytesInputs

DefaultEnv == [ord |-> "fwd", alloc |-> TRUE]
RECURSIVE HasMap(_)
HasMap(value) ==
    \/ value.k = "map" /\ value.kt = "string" /\ value.vt = "interface{}"
    \/ value.k = "slice" /\ \E i \in 1..Len(value.items) : HasMap(value.items[i])
    \/ value.k = "map" /\ \E i \in 1..Len(value.kv) : HasMap(value.kv[i].val)

\* the environments that can make a difference to the conversion of value
EnvsFor(value) ==
    IF HasMap(value) THEN Envs
    ELSE IF value.k = "[]byte" THEN {e \in Envs : e.ord = "fwd"}
    ELSE {DefaultEnv}

\* native objects as another writer of the store, or a caller of the decoder,
\* can hand them over
NativeInputs ==
    LET n == CFNumberCreate(<<2, 2>>, "kCFNumberLongLongType", Z(0, 30))
        one == CFNumberCreate(<<2, 1>>, "kCFNumberLongLongType", Z(0, 1))
        f == CFNumberCreate(<<2, 4, 1>>, "kCFNumberDoubleType", 1500)
        a == CFStringObj(<<2, 1>>, <<97>>)
        b == CFStringObj(<<2, 3>>, <<98>>)
        c == CFStringObj(<<2, 5>>, <<99>>)
        x == CFStringObj(<<2, 2>>, <<120>>)
        y == CFStringObj(<<2, 4>>, <<121>>)
        arr == CFArrayObj(<<2, 6>>, <<CFNumberCreate(<<2, 6, 1>>, "kCFNumberDoubleType", 1500),
                                      CFStringObj(<<2, 6, 2>>, <<122>>)>>)
    IN  {CFDictionaryObj(<<2>>, <<a>>, <<n>>),
         CFDictionaryObj(<<2>>, <<a, b, c>>, <<n, y, arr>>),
         CFDictionaryObj(<<2>>, <<one>>, <<x>>),
         CFDictionaryObj(<<2>>, <<a, CFDataObj(<<2, 3>>, GoBytes(<<1>>))>>, <<x, y>>),
         CFDictionaryObj(<<2>>, <<a, kCFBooleanTrue>>, <<n, f>>),
         CFDictionaryObj(<<2>>, <<>>, <<>>),
         CFArrayObj(<<2>>, <<CFDictionaryObj(<<2, 1>>, <<one>>, <<x>>)>>),
         CFArrayObj(<<2>>, <<x, n>>),
         x, n}

\* the handlers' inputs
KeyInputs == {<<97>>, <<97, 0, 98>>, <<255>>}
AppInputs == {<<120>>, <<255>>}
ScopeInputs ==
    {CurrentUserCurrentHost, CurrentUserAnyHost, AnyUserCurrentHost, AnyUserAnyHost,
     Scope("other", CurrentHost), Scope(CurrentUser, "other")}
ValueInputs ==
    {GoNil, GoStruct, GoString(<<118>>), GoString(<<97, 0, 98>>),
     GoInt("int", Z(0, 42)), GoFloat("float64", 3140), GoBool(TRUE),
     GoSlice("interface{}", <<>>),
     GoSlice("interface{}", <<GoString(<<97>>), GoString(<<98>>)>>),
     GoMap("string", "interface{}",
           <<Entry(<<110>>, GoString(<<74>>)), Entry(<<103>>, GoInt("int", Z(0, 30)))>>)}

(***************************************************************************)
(* The state machine of the handlers.                                      *)
(***************************************************************************)
NoCall ==
    [op |-> "none", key |-> <<>>, value |-> GoNil, app |-> <<>>,
     scope |-> CurrentUserCurrentHost, st |-> "ok", err |-> "", res |-> GoNil,
     ev |-> <<>>, sync |-> "none", had |-> FALSE]

Idle ==
    [phase |-> "idle", lib |-> "part_000", v |-> GoNil, env |-> DefaultEnv,
     enc |-> Ok(NilCFType, <<>>), dec |-> Val(GoNil)]

EmptyStore == [c \in {} |-> NilCFType]

Init ==
    /\ prefs = EmptyStore
    /\ root \in BOOLEAN
    /\ call = NoCall
    /\ ncalls = 0
    /\ cv = Idle

\* a handler can be called when no call is under way and the bound allows
CanCall == ncalls < MaxCalls /\ call.op = "none"

\* whether the store holds a value for the key, application and scope given
HasValue(store, key, app, scope) ==
    [key |-> CString(key), app |-> CString(app), user |-> scope.User,
     host |-> scope.Host] \in DOMAIN store

\* the outcomes of the store's synchronize call
SyncOutcomes == {"ok", "failed", "failed, value kept"}

\* what synchronize reported, if the call reached it
SyncOf(r, success) ==
    IF r.st = "ok" /\ r.err \in {"", "failed to synchronize preferences"}
    THEN IF success THEN "ok" ELSE "failed"
    ELSE "none"

Record(op, key, value, app, scope, r, sync) ==
    [op |-> op, key |-> key, value |-> value, app |-> app, scope |-> scope,
     st |-> r.st, err |-> r.err, res |-> r.res, ev |-> r.ev, sync |-> sync,
     had |-> HasValue(prefs, key, app, scope)]

SetCall ==
    /\ CanCall
    /\ \E key \in KeyInputs, value \in ValueInputs, app \in AppInputs,
          scope \in ScopeInputs, sync \in SyncOutcomes :
        \E env \in EnvsFor(value) :
            \* writing for any user takes root privileges
            LET success == sync = "ok" /\ (scope.User = CurrentUser \/ root)
                kept == sync # "failed"
                r == Set(key, value, app, scope, env, success, kept, prefs)
            IN  /\ call' = Record("Set", key, value, app, scope, r, SyncOf(r, success))
                /\ prefs' = r.store
    /\ ncalls' = ncalls + 1
    /\ UNCHANGED <<root, cv>>

SetAppCall ==
    /\ CanCall
    /\ \E key \in KeyInputs, value \in ValueInputs, app \in AppInputs,
          sync \in SyncOutcomes :
        \E env \in EnvsFor(value) :
            LET success == sync = "ok"
                kept == sync # "failed"
                r == SetApp(key, value, app, env, success, kept, prefs)
            IN  /\ call' = Record("SetApp", key, value, app, CurrentUserAnyHost, r,
                                  SyncOf(r, success))
                /\ prefs' = r.store
    /\ ncalls' = ncalls + 1
    /\ UNCHANGED <<root, cv>>

GetCall ==
    /\ CanCall
    /\ \E key \in KeyInputs, app \in AppInputs, scope \in ScopeInputs :
        LET r == Get(key, app, scope, prefs)
        IN  call' = Record("Get", key, GoNil, app, scope, r, "none")
    /\ ncalls' = ncalls + 1
    /\ UNCHANGED <<prefs, root, cv>>

GetAppCall ==
    /\ CanCall
    /\ \E key \in KeyInputs, app \in AppInputs :
        LET r == GetApp(key, app, prefs)
        IN  call' = Record("GetApp", key, GoNil, app, CurrentUserAnyHost, r, "none")
    /\ ncalls' = ncalls + 1
    /\ UNCHANGED <<prefs, root, cv>>

\* the call has returned and its caller has taken the result; after a panic
\* or a trap there is no caller left
Return ==
    /\ call.op # "none" /\ call.st = "ok"
    /\ call' = NoCall
    /\ UNCHANGED <<prefs, root, ncalls, cv>>

Next == SetCall \/ SetAppCall \/ GetCall \/ GetAppCall \/ Return

Spec == Init /\ [][Next]_vars

(***************************************************************************)
(* The state machine of the converter alone: an input is drawn, encoded    *)
(* by one of the two variants and, when that gave an object, decoded by    *)
(* the same variant.                                                       *)
(***************************************************************************)
InitConv ==
    /\ prefs = EmptyStore
    /\ root = FALSE
    /\ call = NoCall
    /\ ncalls = 0
    /\ cv \in {[phase |-> "in", lib |-> lib, v |-> v, env |-> env,
                enc |-> Ok(NilCFType, <<>>), dec |-> Val(GoNil)] :
                 lib \in {"part_000", "foundation"},
                 v \in Inputs, env \in Envs}
             \cup {[phase |-> "native", lib |-> lib, v |-> GoNil, env |-> DefaultEnv,
                    enc |-> Ok(obj, <<>>), dec |-> Val(GoNil)] :
                     lib \in {"part_000", "foundation"}, obj \in NativeInputs}
    /\ cv.env \in EnvsFor(cv.v)

Encode ==
    /\ cv.phase = "in" /\ cv.lib = "part_000"
    /\ cv' = [cv EXCEPT !.phase = "encoded",
                        !.enc = convertToCFType(cv.v, <<2>>, cv.env)]
    /\ UNCHANGED <<prefs, root, call, ncalls>>

EncodeFoundation ==
    /\ cv.phase = "in" /\ cv.lib = "foundation"
    /\ cv' = [cv EXCEPT !.phase = "encoded",
                        !.enc = ConvertToCFType(cv.v, <<2>>, cv.env)]
    /\ UNCHANGED <<prefs, root, call, ncalls>>

Decodable == cv.phase = "encoded" /\ cv.enc.st = "ok" /\ cv.enc.ref # NilCFType

Decode ==
    /\ Decodable /\ cv.lib = "part_000"
    /\ cv' = [cv EXCEPT !.phase = "decoded", !.dec = convertFromCFType(cv.enc.ref)]
    /\ UNCHANGED <<prefs, root, call, ncalls>>

DecodeFoundation ==
    /\ Decodable /\ cv.lib = "foundation"
    /\ cv' = [cv EXCEPT !.phase = "decoded", !.dec = ConvertFromCFType(cv.enc.ref)]
    /\ UNCHANGED <<prefs, root, call, ncalls>>

\* obj as the string functions read it when they take every dictionary key
\* that is no string for a string of the bytes g
RECURSIVE Misread(_, _)
Misread(obj, g) ==
    IF obj.tag = "CFArray"
    THEN CFArrayObj(obj.id, [i \in 1..Len(obj.arr) |-> Misread(obj.arr[i], g)])
    ELSE IF obj.tag = "CFDictionary"
    THEN CFDictionaryObj(obj.id,
            [i \in 1..Len(obj.dk) |->
                IF obj.dk[i].tag = "CFString" THEN obj.dk[i]
                ELSE CFStringObj(obj.dk[i].id, g)],
            [i \in 1..Len(obj.dv) |-> Misread(obj.dv[i], g)])
    ELSE obj

\* what a decode can come to: where the behaviour is undefined, a trap or
\* the decoding of the object as misread
Outcomes(lib, obj) ==
    IF From(lib, obj).st # "undefined" THEN {From(lib, obj)}
    ELSE {DCrash(From(lib, obj).err)}
            \cup {From(lib, Misread(obj, g)) : g \in {<<>>, <<63, 63>>}}

\* a native object that did not come from the encoder is decoded
DecodeNative ==
    /\ cv.phase = "native" /\ cv.lib = "part_000"
    /\ \E r \in Outcomes("part_000", cv.enc.ref) :
          cv' = [cv EXCEPT !.phase = "read", !.dec = r]
    /\ UNCHANGED <<prefs, root, call, ncalls>>

DecodeNativeFoundation ==
    /\ cv.phase = "native" /\ cv.lib = "foundation"
    /\ \E r \in Outcomes("foundation", cv.enc.ref) :
          cv' = [cv EXCEPT !.phase = "read", !.dec = r]
    /\ UNCHANGED <<prefs, root, call, ncalls>>

NextConv ==
    \/ Encode \/ EncodeFoundation \/ Decode \/ DecodeFoundation
    \/ DecodeNative \/ DecodeNativeFoundation

SpecConv == InitConv /\ [][NextConv]_vars

(***************************************************************************)
(* Properties.                                                             *)
(***************************************************************************)
Encoded == cv.phase \in {"encoded", "decoded"}
Decoded == cv.phase = "decoded"

\* the values the converter documents as supported, absent excluded
RECURSIVE Supported(_)
Supported(v) ==
    \/ v.k \in {"string", "[]byte", "bool", "time.Time"} \cup IntKinds \cup FloatKinds
    \/ v.k = "slice" /\ \A i \in 1..Len(v.items) : Supported(v.items[i])
    \/ /\ v.k = "map" /\ v.kt = "string" /\ v.vt = "interface{}"
       /\ \A i \in 1..Len(v.kv) : Supported(v.kv[i].val)

\* v with every integer as the one 64-bit integer type the variant decodes to
\* and every timestamp as its whole-second UTC instant
RECURSIVE Normal(_, _)
Normal(lib, v) ==
    IF v.k \in IntKinds THEN GoInt(IF lib = "part_000" THEN "int" ELSE "int64", v.i)
    ELSE IF v.k = "time.Time" THEN GoTime(v.sec, 0, "UTC")
    ELSE IF v.k = "slice"
    THEN GoSlice(v.et, [i \in 1..Len(v.items) |-> Normal(lib, v.items[i])])
    ELSE IF v.k = "map"
    THEN GoMap(v.kt, v.vt,
               [i \in 1..Len(v.kv) |-> Entry(v.kv[i].key, Normal(lib, v.kv[i].val))])
    ELSE v

\* C1: every supported value other than absent encodes, the result decodes,
\* and the decoded value equals the original up to the integer type and the
\* whole-second UTC form of a timestamp (the native constructors succeeding).
C1_RoundTrip ==
    (Supported(cv.v) /\ cv.env.alloc) =>
        /\ Encoded => cv.enc.st = "ok" /\ cv.enc.ref # NilCFType
        /\ Decoded => cv.dec.st = "ok" /\ DeepEqual(cv.dec.val, Normal(cv.lib, cv.v))

\* the values C2 is about
C2Value(v) ==
    \/ v.k \in {"string", "int", "float64"}
    \/ v.k = "time.Time" /\ v.nsec = 0 /\ v.loc = "UTC"
    \/ /\ v.k = "slice" /\ v.et = "interface{}"
       /\ \A i \in 1..Len(v.items) : v.items[i].k = "string"
    \/ /\ v.k = "map" /\ v.kt = "string" /\ v.vt = "interface{}"
       /\ \A i \in 1..Len(v.kv) : v.kv[i].val.k \in {"int", "string"}

Returned(op) == call.op = op /\ call.st = "ok"

\* C2: once Set has returned nil for a value that is not nil, Get of the same
\* key, application and scope returns no error and a value deeply equal to it.
C2_ReadAfterWrite ==
    (Returned("Set") /\ call.err = "" /\ C2Value(call.value)) =>
        LET got == Get(call.key, call.app, call.scope, prefs)
        IN  got.st = "ok" /\ got.err = "" /\ DeepEqual(got.res, call.value)

\* C3: encoding absent gives the null sentinel, no error and no native object,
\* and Set of absent on a key that has a value returns nil (synchronize
\* succeeding) and leaves Get of the key returning (nil, nil).
C3_DeleteByAbsent ==
    (cv.v = GoNil /\ Encoded) =>
        /\ cv.enc = Ok(NilCFType, <<>>)
        /\ \A key \in {<<97>>, <<97, 0, 98>>} :
            LET cell == [key |-> <<97>>, app |-> <<120>>, user |-> CurrentUser,
                         host |-> AnyHost]
                had == [c \in {cell} |-> CFStringObj(<<>>, <<118>>)]
                set == Set(key, GoNil, <<120>>, CurrentUserAnyHost, cv.env,
                           TRUE, TRUE, had)
                setApp == SetApp(key, GoNil, <<120>>, cv.env, TRUE, TRUE, had)
                got == Get(key, <<120>>, CurrentUserAnyHost, set.store)
                gotApp == GetApp(key, <<120>>, setApp.store)
            IN  /\ set.st = "ok" /\ set.err = ""
                /\ setApp.st = "ok" /\ setApp.err = ""
                /\ got.st = "ok" /\ got.err = "" /\ got.res = GoNil
                /\ gotApp.st = "ok" /\ gotApp.err = "" /\ gotApp.res = GoNil

\* the call looked the key up: both strings were created and the scope is named
LookedUp ==
    /\ ValidUTF8(CString(call.key)) /\ ValidUTF8(CString(call.app))
    /\ call.scope.User \in {CurrentUser, AnyUser}
    /\ call.scope.Host \in {CurrentHost, AnyHost}

Events(op) == {i \in 1..Len(call.ev) : call.ev[i].op = op}
EventsAt(op, id) == {i \in Events(op) : call.ev[i].id = id}

\* C4: a Get or GetApp of a key that has no value in the application and
\* scope given returns (nil, nil), reports no error, and neither decodes nor
\* releases the null reference the store returned.
C4_MissingKey ==
    (call.op \in {"Get", "GetApp"} /\ LookedUp /\ ~call.had) =>
        /\ call.st = "ok" /\ call.err = "" /\ call.res = GoNil
        /\ Events("convertFromCFType") = {}
        /\ \A i \in 1..Len(call.ev) : call.ev[i].id # <<4>> /\ call.ev[i].tag # "NULL"

C4_Witness ==
    /\ call.op \in {"Get", "GetApp"} /\ LookedUp /\ ~call.had
    /\ prefs # EmptyStore

Same(a, b) == a.st = b.st /\ a.err = b.err /\ a.res = b.res

\* C5: once SetApp has returned nil for v, GetApp of the key returns v, and
\* GetApp always returns what Get returns for the scope CurrentUserAnyHost.
C5_AppScope ==
    /\ (Returned("SetApp") /\ call.err = "") =>
          LET got == GetApp(call.key, call.app, prefs)
          IN  got.st = "ok" /\ got.err = "" /\ DeepEqual(got.res, call.value)
    /\ \A key \in KeyInputs, app \in AppInputs :
          Same(GetApp(key, app, prefs), Get(key, app, CurrentUserAnyHost, prefs))

\* the objects a handler obtains itself: the key string, the root of the
\* encoded value, the application-ID string, the copy from the store, and
\* the two strings of GetApp
TopIds == {<<1>>, <<2>>, <<3>>, <<4>>, <<5>>, <<6>>}

\* C6: when a handler returns, on whichever path, every owned object it
\* obtained itself has been released exactly once, after it was obtained.
C6_ReleaseOnce ==
    (call.op # "none" /\ call.st = "ok") =>
        \A id \in TopIds :
            /\ Cardinality(EventsAt("create", id)) <= 1
            /\ Cardinality(EventsAt("release", id)) = Cardinality(EventsAt("create", id))
            /\ \A i \in EventsAt("create", id), j \in EventsAt("release", id) : i < j

C6_Witness ==
    /\ Returned("Set") /\ call.err = "invalid host type in scope"
    /\ \A id \in {<<1>>, <<2>>, <<3>>} : EventsAt("release", id) # {}

\* C7: no call releases kCFBooleanTrue or kCFBooleanFalse.
C7_BooleansNotReleased ==
    \A i \in Events("release") : call.ev[i].tag # "CFBoolean"

\* C8: an integer of any integer type within the int64 range is encoded as a
\* native integer number of the same value; one outside it makes the encoder
\* return a value-too-large error.
C8_IntegerEncoding ==
    (cv.v.k \in IntKinds /\ Encoded) =>
        IF InInt64(cv.v.i)
        THEN /\ cv.enc.st = "ok"
             /\ cv.enc.ref.tag = "CFNumber"
             /\ cv.enc.ref.nt \in IntegerFamily
             /\ cv.enc.ref.ll = cv.v.i
        ELSE cv.enc.st = "err" /\ cv.enc.err = "value too large"

\* C9: a value of a floating-point type is stored with a float-family tag
\* and decodes to a float64 of the same value, 0.0 included; a value of a
\* signed integer type is stored with an integer-family tag and decodes to
\* a 64-bit integer of the same value.
C9_NumericFamily ==
    /\ (cv.v.k \in FloatKinds /\ Encoded) =>
          /\ cv.enc.st = "ok" /\ cv.enc.ref.tag = "CFNumber"
          /\ cv.enc.ref.nt \in FloatFamily
          /\ Decoded => cv.dec = Val(GoFloat("float64", cv.v.f))
    /\ (cv.v.k \in SignedKinds /\ Encoded) =>
          /\ cv.enc.st = "ok" /\ cv.enc.ref.tag = "CFNumber"
          /\ cv.enc.ref.nt \in IntegerFamily
          /\ Decoded => /\ cv.dec.st = "ok"
                        /\ cv.dec.val.k \in {"int", "int64"}
                        /\ cv.dec.val.i = cv.v.i

\* C10: a timestamp is encoded as the date whose absolute time is its Unix
\* second less 978307200, and that date decodes to the UTC instant of the
\* same Unix second: the timestamp itself when it has no sub-second part,
\* the timestamp truncated to the second otherwise.
C10_Timestamp ==
    (cv.v.k = "time.Time" /\ Encoded) =>
        /\ cv.enc.st = "ok"
        /\ cv.enc.ref.tag = "CFDate"
        /\ cv.enc.ref.at = [sec |-> cv.v.sec - 978307200, frac |-> 0]
        /\ Decoded =>
              /\ cv.dec.st = "ok"
              /\ cv.dec.val = GoTime(cv.enc.ref.at.sec + 978307200, 0, "UTC")
              /\ cv.dec.val = GoTime(cv.v.sec, 0, "UTC")

C10_Witness ==
    /\ Decoded /\ cv.v.k = "time.Time"
    /\ cv.v.sec < 0 /\ cv.v.nsec > 0
    /\ cv.dec.val.sec = cv.v.sec

\* a shape outside the supported set
Unsupported(v) == v.k = "struct" \/ (v.k = "map" /\ v.kt # "string")

\* a scalar whose own encoding cannot fail
Sound(v) ==
    \/ v.k \in {"bool", "time.Time"} \cup SignedKinds \cup FloatKinds
    \/ v.k = "string" /\ \A i \in 1..Len(v.s) : v.s[i] \in 1..127

\* a value that is or holds an unsupported shape, all else in it being sound
RECURSIVE HoldsUnsupported(_)
HoldsUnsupported(v) ==
    \/ Unsupported(v)
    \/ /\ v.k = "slice" /\ v.et = "interface{}"
       /\ \A i \in 1..Len(v.items) : Sound(v.items[i]) \/ HoldsUnsupported(v.items[i])
       /\ \E i \in 1..Len(v.items) : HoldsUnsupported(v.items[i])
    \/ /\ v.k = "map" /\ v.kt = "string" /\ v.vt = "interface{}"
       /\ \A i \in 1..Len(v.kv) :
            /\ Sound(GoString(v.kv[i].key))
            /\ Sound(v.kv[i].val) \/ HoldsUnsupported(v.kv[i].val)
       /\ \E i \in 1..Len(v.kv) : HoldsUnsupported(v.kv[i].val)

\* the objects created in a sequence of events and not released exactly once
Unreleased(ev) ==
    {i \in 1..Len(ev) :
        /\ ev[i].op = "create"
        /\ Cardinality({j \in 1..Len(ev) :
                           ev[j].op = "release" /\ ev[j].id = ev[i].id}) # 1}

\* C11: encoding a value that is or holds an unsupported shape returns the
\* unsupported-type error and no native object, and every native object
\* created during the call has been released.
C11_UnsupportedShape ==
    (HoldsUnsupported(cv.v) /\ Encoded) =>
        /\ cv.enc.st = "err" /\ cv.enc.err = "unsupported type"
        /\ cv.enc.ref = NilCFType
        /\ Unreleased(cv.enc.ev) = {}

\* a dictionary with a key that is no native string
HasForeignKey(obj) ==
    obj.tag = "CFDictionary" /\ \E i \in 1..Len(obj.dk) : obj.dk[i].tag # "CFString"

\* C12: decoding a native dictionary that has a key which is no native
\* string fails with the unsupported-key-type error and returns no mapping.
C12_ForeignKey ==
    (cv.phase = "read" /\ cv.lib = "part_000" /\ HasForeignKey(cv.enc.ref)) =>
        /\ cv.dec.st = "err" /\ cv.dec.err = "unsupported key type"
        /\ cv.dec.val = GoNil

\* the decoded form of a native number, string or array of such
RECURSIVE DecodedFormOf(_, _)
DecodedFormOf(val, obj) ==
    IF obj.tag = "CFNumber"
    THEN IF obj.nt \in IntegerFamily
         THEN val.k \in {"int", "int64"} /\ val.i = obj.ll
         ELSE val = GoFloat("float64", obj.dbl)
    ELSE IF obj.tag = "CFString" THEN val = GoString(obj.str)
    ELSE /\ obj.tag = "CFArray" /\ val.k = "slice"
         /\ Len(val.items) = Len(obj.arr)
         /\ \A i \in 1..Len(obj.arr) : DecodedFormOf(val.items[i], obj.arr[i])

\* a dictionary with string keys and numbers, strings and arrays as values
RECURSIVE PlainMember(_)
PlainMember(obj) ==
    \/ obj.tag \in {"CFNumber", "CFString"}
    \/ obj.tag = "CFArray" /\ \A i \in 1..Len(obj.arr) : PlainMember(obj.arr[i])

PlainDictionary(obj) ==
    /\ obj.tag = "CFDictionary" /\ Len(obj.dk) > 0
    /\ \A i \in 1..Len(obj.dk) : obj.dk[i].tag = "CFString" /\ PlainMember(obj.dv[i])

\* C13: decoding a native dictionary whose keys are strings and whose values
\* are numbers, strings and arrays returns a mapping with exactly the
\* dictionary's keys, each mapped to the decoded form of its value.
C13_DictionaryDecode ==
    (cv.phase \in {"decoded", "read"} /\ PlainDictionary(cv.enc.ref)) =>
        /\ cv.dec.st = "ok" /\ cv.dec.val.k = "map"
        /\ MapKeys(cv.dec.val.kv) = {cv.enc.ref.dk[i].str : i \in 1..Len(cv.enc.ref.dk)}
        /\ Len(cv.dec.val.kv) = Len(cv.enc.ref.dk)
        /\ \A i \in 1..Len(cv.enc.ref.dk) :
              DecodedFormOf(MapAt(cv.dec.val.kv, cv.enc.ref.dk[i].str), cv.enc.ref.dv[i])

\* the call is a write whose key, value and application ID were encoded and
\* whose scope is valid, so that it went on to the store
ReachedStore ==
    /\ call.op \in {"Set", "SetApp"} /\ LookedUp
    /\ call.st = "ok" /\ call.err # "error converting value to CFType"

\* C14: a Set or SetApp that went on to the store returns the
\* synchronize-failure error when the store's synchronize call reported
\* failure, and nil when it reported success.
C14_SyncError ==
    ReachedStore =>
        \/ call.sync = "ok" /\ call.err = ""
        \/ call.sync = "failed" /\ call.err = "failed to synchronize preferences"

C14_Witness ==
    /\ ReachedStore /\ call.op = "SetApp"
    /\ call.sync = "failed"
    /\ call.err = "failed to synchronize preferences"
    /\ ~call.had /\ HasValue(prefs, call.key, call.app, call.scope)

\* C15: a write under an any-user scope made without root privileges
\* returns an error, and one that is not the synchronize-failure error of
\* the other failed writes.
C15_PermissionDenied ==
    (ReachedStore /\ call.op = "Set" /\ call.scope.User = AnyUser /\ ~root) =>
        /\ call.err # ""
        /\ call.err # "failed to synchronize preferences"

\* C16: the empty string encodes and decodes to the empty string, and the
\* empty byte slice to an empty byte slice; neither call fails or panics and
\* neither result is nil.
C16_EmptyRoundTrip ==
    /\ (cv.v = GoString(<<>>) /\ Encoded) =>
          /\ cv.enc.st = "ok" /\ cv.enc.ref.tag = "CFString"
          /\ Decoded => /\ cv.dec.st = "ok" /\ cv.dec.val # GoNil
                        /\ cv.dec.val.k = "string" /\ Len(cv.dec.val.s) = 0
    /\ (cv.v = GoBytes(<<>>) /\ cv.env.alloc /\ Encoded) =>
          /\ cv.enc.st = "ok" /\ cv.enc.ref.tag = "CFData"
          /\ Decoded => /\ cv.dec.st = "ok" /\ cv.dec.val # GoNil
                        /\ cv.dec.val.k = "[]byte" /\ Len(cv.dec.val.b) = 0

C16_Witness ==
    /\ Decoded /\ cv.v = GoBytes(<<>>)
    /\ cv.dec.st = "ok" /\ cv.dec.val.k = "[]byte"

\* C17: a byte slice longer than 2^32 - 1 bytes is refused with the
\* too-large error before any native object is created; a byte slice of at
\* most 2^32 - 1 bytes goes to CFDataCreate with its exact length.
C17_BytesLength ==
    (cv.v.k = "[]byte" /\ cv.env.alloc /\ Encoded) =>
        LET n == IF "n" \in DOMAIN cv.v THEN cv.v.n ELSE <<0, Len(cv.v.b)>>
        IN  IF n[1] > 65535
            THEN /\ cv.enc.st = "err" /\ cv.enc.err = "data is too large"
                 /\ cv.enc.ref = NilCFType /\ cv.enc.ev = <<>>
            ELSE /\ cv.enc.st = "ok" /\ cv.enc.ref.tag = "CFData"
                 /\ cv.enc.ref.len = n

C17_Witness ==
    /\ Encoded /\ cv.v = GoBytesOfLen(<<65536, 0>>)
    /\ cv.enc.err = "data is too large"

\* the events of ev that apply op to the object id
EventsOn(ev, op, id) == {j \in 1..Len(ev) : ev[j].op = op /\ ev[j].id = id}

\* the elements of the sequence being encoded, each encoded on its own
ElementResults ==
    [i \in 1..Len(cv.v.items) |-> Conv(cv.lib, cv.v.items[i], <<2, i>>, cv.env)]

\* the events of ev about the object id or an object made under it
EventsUnder(ev, id) ==
    {j \in 1..Len(ev) : /\ Len(ev[j].id) >= Len(id)
                        /\ SubSeq(ev[j].id, 1, Len(id)) = id}

\* C18: the elements of a sequence are encoded in index order; when element
\* i is the first that fails, encode returns that element's error, encodes
\* nothing after i and builds no array; when all succeed, the array holds
\* the encoded elements in the original order and with the original length.
C18_SequenceEncoding ==
    (cv.v.k = "slice" /\ Encoded) =>
        LET rs == ElementResults
            failed == {i \in 1..Len(rs) : rs[i].st # "ok"}
        IN  IF failed # {}
            THEN LET i == CHOOSE x \in failed : \A y \in failed : x <= y
                 IN  /\ cv.enc.st = "err" /\ cv.enc.err = rs[i].err
                     /\ cv.enc.ref = NilCFType
                     /\ \A j \in (i + 1)..Len(rs) : EventsUnder(cv.enc.ev, <<2, j>>) = {}
                     /\ \A j \in 1..Len(cv.enc.ev) : cv.enc.ev[j].id # <<2>>
            ELSE /\ cv.enc.st = "ok" /\ cv.enc.ref.tag = "CFArray"
                 /\ Len(cv.enc.ref.arr) = Len(rs)
                 /\ \A i \in 1..Len(rs) : cv.enc.ref.arr[i] = rs[i].ref

\* C19: when the encoding of a sequence or a mapping fails part-way, every
\* object created earlier in that encode call, at every nesting level, is
\* released exactly once before the error is returned.
C19_Unwinding ==
    (Encoded /\ cv.v.k \in {"slice", "map"} /\ cv.enc.st = "err") =>
        \A i \in 1..Len(cv.enc.ev) :
            cv.enc.ev[i].op = "create" =>
                Cardinality(EventsOn(cv.enc.ev, "release", cv.enc.ev[i].id)) = 1

\* C20: after a dictionary or an array is built, the converter releases its
\* own reference to each key, value and element, so that only the aggregate
\* holds them when it is returned.
C20_MembersReleased ==
    (Encoded /\ cv.enc.st = "ok" /\ cv.enc.ref.tag \in {"CFArray", "CFDictionary"}) =>
        \A i \in 1..Len(cv.enc.ev) :
            (cv.enc.ev[i].op = "create" /\ cv.enc.ev[i].id # cv.enc.ref.id) =>
                /\ EventsOn(cv.enc.ev, "retain", cv.enc.ev[i].id) # {}
                /\ Cardinality(EventsOn(cv.enc.ev, "release", cv.enc.ev[i].id)) = 1

\* whether the object p is the object s or holds it as a member
Holds(p, s) == Len(p) <= Len(s) /\ SubSeq(s, 1, Len(p)) = p

\* the objects an event of a call reads: the store's set call reads the key,
\* the encoded value and the application ID, decoding reads the copy from
\* the store, a retain reads the object retained
Reads(e) ==
    IF e.op \in {"CFPreferencesSetValue", "CFPreferencesSetAppValue"}
    THEN {<<1>>, <<2>>, <<3>>}
    ELSE IF e.op = "convertFromCFType" THEN {<<4>>}
    ELSE IF e.op = "retain" THEN {e.id}
    ELSE {}

\* C21: in no call of Set, SetApp, Get or GetApp is an object released
\* before a later step of the call reads it: the encoded value is released
\* after the store's set call, the copy from the store after its decoding.
C21_NoUseAfterRelease ==
    call.op # "none" =>
        \A i \in Events("release") : \A j \in (i + 1)..Len(call.ev) :
            \A id \in Reads(call.ev[j]) : ~Holds(call.ev[i].id, id)

C21_Witness ==
    /\ Returned("Get") /\ call.had /\ call.res.k = "map"
    /\ \E i \in EventsAt("convertFromCFType", <<4>>) :
           \E j \in EventsAt("release", <<4>>) : i < j

\* the native strings made for the keys of the mapping being encoded
KeyStrings ==
    [i \in 1..Len(cv.v.kv) |-> stringToCFString(cv.v.kv[i].key, <<2, 2 * i - 1>>).ref]

\* C22: for every string-keyed mapping that encodes successfully the native
\* strings of its keys are pairwise distinct as strings and the dictionary
\* has as many entries as the mapping, also when a key holds a zero byte.
C22_KeyUniqueness ==
    (Encoded /\ cv.v.k = "map" /\ cv.v.kt = "string" /\ cv.enc.st = "ok") =>
        /\ \A i, j \in 1..Len(KeyStrings) :
              KeyStrings[i].str = KeyStrings[j].str => i = j
        /\ cv.enc.ref.tag = "CFDictionary"
        /\ Len(cv.enc.ref.dk) = Len(cv.v.kv)

\* whether v is a sequence or mapping with a nil element or value, directly
\* or inside a nested sequence or mapping
RECURSIVE HoldsNil(_)
HoldsNil(v) ==
    IF v.k = "slice"
    THEN \E i \in 1..Len(v.items) : v.items[i].k = "nil" \/ HoldsNil(v.items[i])
    ELSE IF v.k = "map"
    THEN \E i \in 1..Len(v.kv) : v.kv[i].val.k = "nil" \/ HoldsNil(v.kv[i].val)
    ELSE FALSE

\* C23: encoding a sequence or mapping with a nil element or value never
\* hands a null reference to CFArrayCreate or CFDictionaryCreate.
C23_NoNullMember ==
    (Encoded /\ HoldsNil(cv.v)) =>
        ~(cv.enc.st = "crash" /\ cv.enc.err = "CFRetain(NULL)")

\* C24: for every input the encoder returns an object, the null sentinel or
\* an error and the decoder returns a value or an error; neither panics nor
\* traps.
C24_Totality ==
    /\ Encoded => cv.enc.st \in {"ok", "err"}
    /\ cv.phase \in {"decoded", "read"} => cv.dec.st \in {"ok", "err"}

\* a step in which Set or SetApp is called and returns an error
FailedWrite ==
    /\ call.op = "none" /\ call'.op \in {"Set", "SetApp"}
    /\ call'.st = "ok" /\ call'.err # ""

\* Get of the key, application and scope of the call c, on the store given
GetOf(c, store) == Get(c.key, c.app, c.scope, store)

UnnamedScope(scope) ==
    scope.User \notin {CurrentUser, AnyUser} \/ scope.Host \notin {CurrentHost, AnyHost}

\* C25: whenever Set or SetApp returns an error, a Get of the same key,
\* application and scope returns after the call what it returned before it;
\* and a scope whose User or Host is not a named constant always yields an
\* error from Set and from Get.
C25_FailedWriteFrame ==
    /\ [][FailedWrite => Same(GetOf(call', prefs'), GetOf(call', prefs))]_vars
    /\ [](call.op \in {"Set", "Get"} /\ UnnamedScope(call.scope) =>
             call.st = "ok" /\ call.err # "")

====
